---- MODULE Spec2Model ----
(***************************************************************************)
(* Model of cegid-import.py: the SFTP -> (optional S3) transfer pipeline.  *)
(* main() and process_files() are modelled step by step, one action per    *)
(* collaborator call, with the collaborators (paramiko SFTP client, boto3  *)
(* S3 client, the CSV file) answering nondeterministically.                *)
(*                                                                         *)
(* `ops` is a history variable: the sequence of manager calls and of       *)
(* results[...].append calls made so far, each tagged with the index of    *)
(* the input occurrence being processed.                                   *)
(***************************************************************************)
EXTENDS Integers, Sequences, FiniteSets, TLC

\* ---------------------------------------------------------------- bounds
MaxFiles == 2

\* at most this many collaborator calls fail in one run
MaxFaults == 1

Names == {"a.csv", "b.csv"}

\* s3_prefix values, as sequences of characters
Prefixes == { <<>>, <<"p", "/">> }

\* --remote-path values: absolute ("/d") or relative to the current
\* directory ("d"), as a flag and the path's components
RemotePaths == [absolute : BOOLEAN, parts : { <<"d">> }]

\* the directory an SFTP session starts in (the account's login directory)
Home == <<"home">>

\* ------------------------------------------------------------- variables
VARIABLES
    args,          \* parsed command line: use_s3, no_delete, overwrite_s3, s3_prefix,
                   \* remote_path
    main_pc,       \* position in main()
    retval,        \* value returned by main() (exit status), valid once main_pc is "finally"/"done"
    uncaught,      \* TRUE when an exception left main() instead of a return value
    get_all_files, \* main(): CSV absent, enumerate the remote directory
    filenames,     \* the list handed to process_files
    sftp_open,     \* SFTPManager.sftp is an open session
    disconnects,   \* number of SFTPManager.disconnect() calls
    remoteFiles,   \* files present in the remote directory (RemoteDir)
    cwd,           \* the SFTP session's current directory, as path components
    s3Keys,        \* keys present in the bucket
    pf_pc,         \* position in process_files()
    i,             \* 1-based index of the filename the for loop is at
    results,       \* process_files' results dict
    ops,           \* history of calls: [op, idx, ret]
    tempdir,       \* the mkdtemp directory: "none", "exists" or "removed"
    staged,        \* files in the temp directory: <<name, "whole" | "partial">>
    localFiles,    \* files written to local_download_path, likewise
    faults         \* number of collaborator calls that failed so far

vars == << args, main_pc, retval, uncaught, get_all_files, filenames, sftp_open,
           disconnects, remoteFiles, s3Keys, pf_pc, i, results, ops,
           tempdir, staged, localFiles, faults, cwd >>

Buckets == { "success", "sftp_not_found", "sftp_download_failed",
             "s3_upload_failed", "sftp_delete_failed", "s3_already_exists" }

\* results = {'success': [], ...}
EmptyResults == [b \in Buckets |-> <<>>]

\* sequences over S of length 0..n
SeqUpTo(S, n) == UNION { [1..k -> S] : k \in 0..n }

RECURSIVE rstrip(_)
\* str.rstrip('/')
rstrip(s) ==
    IF s # <<>> /\ s[Len(s)] = "/" THEN rstrip(SubSeq(s, 1, Len(s) - 1)) ELSE s

\* s3_key = f"{s3_prefix.rstrip('/')}/{filename}" if s3_prefix else filename
s3_key(s3_prefix, filename) ==
    IF s3_prefix # <<>> THEN rstrip(s3_prefix) \o <<"/", filename>>
    ELSE <<filename>>

use_s3 == args.use_s3

\* --no-delete not passed on: process_files' default delete_from_sftp=True
delete_from_sftp_Default == TRUE

delete_from_sftp == ~args.no_delete
overwrite_s3 == args.overwrite_s3

\* where sftp.chdir(path) leads from directory dir: an absolute path names
\* the directory itself, a relative one is resolved against dir
adjust_cwd(dir, path) == IF path.absolute THEN path.parts ELSE dir \o path.parts

\* the directory --remote-path names when the session starts
RemoteDir == adjust_cwd(Home, args.remote_path)

\* Exchanging the two names everywhere maps every run to a run, so of two
\* initial contents of the remote directory and the bucket that are each
\* other's image only one is kept: the one that prefers "a.csv".
Prefers(S, first, second) == second \in S => first \in S

OnePerExchange(files, keys, prefix) ==
    /\ Prefers(files, "a.csv", "b.csv")
    /\ files \in {{}, Names} =>
           Prefers(keys, s3_key(prefix, "a.csv"), s3_key(prefix, "b.csv"))

\* ------------------------------------------------------------------ Init
Init ==
    /\ args \in [use_s3 : BOOLEAN, no_delete : BOOLEAN,
                 overwrite_s3 : BOOLEAN, s3_prefix : Prefixes,
                 remote_path : RemotePaths]
    /\ main_pc = "read_csv"
    /\ retval = 0
    /\ uncaught = FALSE
    /\ get_all_files = FALSE
    /\ filenames = <<>>
    /\ sftp_open = FALSE
    /\ disconnects = 0
    /\ remoteFiles \in SUBSET Names
    /\ s3Keys \in IF args.use_s3
                  THEN SUBSET { s3_key(args.s3_prefix, n) : n \in Names }
                  ELSE { {} }
    /\ OnePerExchange(remoteFiles, s3Keys, args.s3_prefix)
    /\ pf_pc = "idle"
    /\ i = 0
    /\ results = EmptyResults
    /\ ops = <<>>
    /\ tempdir = "none"
    /\ staged = {}
    /\ localFiles = {}
    /\ faults = 0
    /\ cwd = Home

\* ------------------------------------------------- collaborators' answers
\* A CSV cell: the filename text, possibly surrounded by blanks
Cells == [pad : BOOLEAN, text : Names \cup {""}]

\* str.strip() of a cell
strip(cell) == cell.text

\* What open()/csv.DictReader can find at csv_path
CsvFiles ==
    { [kind |-> "absent"], [kind |-> "unreadable"] } \cup
    [kind : {"csv"}, has_column : BOOLEAN, rows : SeqUpTo(Cells, MaxFiles)]

NoneValue == [is_none |-> TRUE, value |-> <<>>]
Some(v) == [is_none |-> FALSE, value |-> v]

RECURSIVE NonEmptyStripped_KeepsEmpty(_)
\* `if filename:` left out
NonEmptyStripped_KeepsEmpty(rows) ==
    IF rows = <<>> THEN <<>>
    ELSE <<strip(Head(rows))>> \o NonEmptyStripped_KeepsEmpty(Tail(rows))

RECURSIVE NonEmptyStripped(_)
\* for row in reader: filename = row[col].strip(); if filename: filenames.append(filename)
NonEmptyStripped(rows) ==
    IF rows = <<>> THEN <<>>
    ELSE LET filename == strip(Head(rows))
         IN  (IF filename # "" THEN <<filename>> ELSE <<>>)
                 \o NonEmptyStripped(Tail(rows))

read_csv_filenames(csv) ==
    CASE csv.kind = "absent"     -> NoneValue
      [] csv.kind = "unreadable" -> Some(<<>>)
      [] OTHER -> IF ~csv.has_column THEN Some(<<>>)
                  ELSE Some(NonEmptyStripped(csv.rows))

\* all orderings of a finite set
Perms(S) == { s \in [1..Cardinality(S) -> S] :
                \A j, k \in 1..Cardinality(S) : s[j] = s[k] => j = k }

\* SFTPManager.list_files: the directory's files in listdir order, [] on failure
list_files == Perms(remoteFiles) \cup { <<>> }

\* raw outcome of sftp.stat(filename), resolved in the current directory;
\* what a directory other than RemoteDir holds is not known
StatOutcomes(filename) ==
    (IF cwd # RemoteDir THEN {"ok", "FileNotFoundError"}
     ELSE IF filename \in remoteFiles THEN {"ok"} ELSE {"FileNotFoundError"})
        \cup {"Exception"}

\* the file can be read or removed where the session is: in RemoteDir when
\* it is among its files, elsewhere because stat has just found it
present(filename) == cwd # RemoteDir \/ filename \in remoteFiles

\* SFTPManager.file_exists
sftp_file_exists(raw) == raw = "ok"

\* raw outcome of s3_client.head_object(Key=key)
HeadOutcomes(key) ==
    (IF key \in s3Keys THEN {"ok"} ELSE {"ClientError404"})
        \cup {"ClientErrorOther", "OtherException"}

\* S3Manager.file_exists: "True", "False", or "raise" when the exception is
\* not a ClientError and leaves the method
s3_file_exists(raw) ==
    CASE raw = "ok"               -> "True"
      [] raw = "ClientError404"   -> "False"
      [] raw = "ClientErrorOther" -> "False"
      [] OTHER                    -> "raise"

\* raw outcome of sftp.get(filename, ...): "Exception" fails before the
\* local file is opened, "ExceptionPartial" after (open(localpath, "wb")
\* comes first, so an incomplete local file is left behind)
GetOutcomes(filename) ==
    (IF present(filename) THEN {"ok"} ELSE {})
        \cup {"Exception", "ExceptionPartial"}

\* a directory's content without the file called name
Without(files, name) == { f \in files : f[1] # name }

\* a directory's content after sftp.get wrote (or failed to write) name
after_get(files, name, raw) ==
    CASE raw = "ok"               -> Without(files, name) \cup { <<name, "whole">> }
      [] raw = "ExceptionPartial" -> Without(files, name) \cup { <<name, "partial">> }
      [] OTHER                    -> files

\* download_file_to_temp / download_file_to_local: a path, or None
download_file(raw) == raw = "ok"

\* raw outcome of s3_client.upload_file
UploadOutcomes == {"ok", "Exception"}

\* S3Manager.upload_file
upload_file(raw) == raw = "ok"

\* raw outcome of sftp.remove(filename)
RemoveOutcomes(filename) ==
    (IF present(filename) THEN {"ok"} ELSE {}) \cup {"Exception"}

\* SFTPManager.delete_file
delete_file(raw) == raw = "ok"

\* the raw outcomes that are failures of the call (a missing file or key is
\* an answer, not a failure)
FaultyOutcomes == {"Exception", "ExceptionPartial", "ClientErrorOther", "OtherException"}

Cost(raw) == IF raw \in FaultyOutcomes THEN 1 ELSE 0

CostOf(ok) == IF ok THEN 0 ELSE 1

\* n more calls fail in this step
Spend(n) == faults + n <= MaxFaults /\ faults' = faults + n

\* Python bool as text, so that every history entry's ret is a string
Str(b) == IF b THEN "True" ELSE "False"

\* history entry: a manager call and what it returned
Call(op, idx, ret) == [op |-> op, idx |-> idx, ret |-> ret]

\* history entry: results[bucket].append(filenames[idx])
Rec(bucket, idx) == [op |-> "append", idx |-> idx, ret |-> bucket]

\* ------------------------------------------------------------------ main
\* total_failures also counting the deletion failures
exit_code_CountsDeleteFailures(res, with_s3) ==
    LET total_failures ==
            Len(res["sftp_download_failed"]) + Len(res["s3_upload_failed"])
                + Len(res["sftp_delete_failed"])
    IN  IF total_failures > 0 THEN 1 ELSE 0

\* total_failures and the exit code, main() lines 519-531
exit_code(res, with_s3) ==
    LET total_failures ==
            IF with_s3
            THEN Len(res["sftp_download_failed"]) + Len(res["s3_upload_failed"])
            ELSE Len(res["sftp_download_failed"])
    IN  IF total_failures > 0 THEN 1 ELSE 0

\* filenames = read_csv_filenames(...) and the three-way branch after it
Main_ReadCsv ==
    /\ main_pc = "read_csv"
    /\ \E csv \in CsvFiles :
         LET r == read_csv_filenames(csv) IN
         IF r.is_none
         THEN /\ get_all_files' = TRUE
              /\ filenames' = <<>>
              /\ main_pc' = "s3_init"
              /\ UNCHANGED retval
         ELSE IF r.value = <<>>
         THEN /\ retval' = 1
              /\ main_pc' = "done"
              /\ UNCHANGED << get_all_files, filenames >>
         ELSE /\ get_all_files' = FALSE
              /\ filenames' = r.value
              /\ main_pc' = "s3_init"
              /\ UNCHANGED retval
    /\ UNCHANGED << args, uncaught, sftp_open, disconnects, remoteFiles, s3Keys,
                    pf_pc, i, results, ops,
                    tempdir, staged, localFiles, faults, cwd >>

\* s3_manager = S3Manager(...) when use_s3; a constructor failure returns 1
Main_S3Init ==
    /\ main_pc = "s3_init"
    /\ IF use_s3
       THEN \E ok \in BOOLEAN :
              /\ Spend(CostOf(ok))
              /\ ops' = Append(ops, Call("S3Manager", 0, Str(ok)))
              /\ IF ok
                 THEN main_pc' = "connect" /\ UNCHANGED retval
                 ELSE main_pc' = "done" /\ retval' = 1
       ELSE /\ main_pc' = "connect"
            /\ UNCHANGED << retval, ops, faults >>
    /\ UNCHANGED << args, uncaught, get_all_files, filenames, sftp_open, disconnects,
                    remoteFiles, s3Keys, pf_pc, i, results,
                    tempdir, staged, localFiles, cwd >>

\* if not sftp_manager.connect(): return 1
Main_Connect ==
    /\ main_pc = "connect"
    /\ \E ok \in BOOLEAN :
         /\ Spend(CostOf(ok))
         /\ ops' = Append(ops, Call("connect", 0, Str(ok)))
         /\ IF ok
            THEN /\ sftp_open' = TRUE
                 /\ main_pc' = IF get_all_files THEN "chdir" ELSE "process"
                 /\ UNCHANGED retval
            ELSE /\ retval' = 1
                 /\ main_pc' = "finally"
                 /\ UNCHANGED sftp_open
    /\ UNCHANGED << args, uncaught, get_all_files, filenames, disconnects,
                    remoteFiles, s3Keys, pf_pc, i, results,
                    tempdir, staged, localFiles, cwd >>

\* get_all_files: if not sftp_manager.change_directory(args.remote_path): return 1
Main_ChangeDirectory ==
    /\ main_pc = "chdir"
    /\ \E ok \in BOOLEAN :
         /\ Spend(CostOf(ok))
         /\ ops' = Append(ops, Call("change_directory", 0, Str(ok)))
         /\ cwd' = IF ok THEN adjust_cwd(cwd, args.remote_path) ELSE cwd
         /\ IF ok
            THEN main_pc' = "list" /\ UNCHANGED retval
            ELSE main_pc' = "finally" /\ retval' = 1
    /\ UNCHANGED << args, uncaught, get_all_files, filenames, sftp_open, disconnects,
                    remoteFiles, s3Keys, pf_pc, i, results,
                    tempdir, staged, localFiles >>

\* filenames = sftp_manager.list_files(); if not filenames: return 0
Main_ListFiles ==
    /\ main_pc = "list"
    /\ \E listing \in list_files :
         /\ filenames' = listing
         /\ IF listing = <<>>
            THEN main_pc' = "finally" /\ retval' = 0
            ELSE main_pc' = "process" /\ UNCHANGED retval
    /\ UNCHANGED << args, uncaught, get_all_files, sftp_open, disconnects,
                    remoteFiles, s3Keys, pf_pc, i, results, ops,
                    tempdir, staged, localFiles, faults, cwd >>

\* results = process_files(...): enter process_files, results dict created empty
Main_ProcessFiles ==
    /\ main_pc = "process"
    /\ main_pc' = "in_process"
    /\ pf_pc' = "chdir"
    /\ results' = EmptyResults
    /\ UNCHANGED << args, retval, uncaught, get_all_files, filenames, sftp_open,
                    disconnects, remoteFiles, s3Keys, i, ops,
                    tempdir, staged, localFiles, faults, cwd >>

\* print_summary(results, use_s3) and the exit code
Main_Report ==
    /\ main_pc = "in_process"
    /\ pf_pc = "returned"
    /\ retval' = exit_code(results, use_s3)
    /\ main_pc' = "finally"
    /\ UNCHANGED << args, uncaught, get_all_files, filenames, sftp_open, disconnects,
                    remoteFiles, s3Keys, pf_pc, i, results, ops,
                    tempdir, staged, localFiles, faults, cwd >>

\* the exception leaves main() without the finally clause
Main_Propagate_NoFinally ==
    /\ main_pc = "in_process"
    /\ pf_pc = "raised"
    /\ uncaught' = TRUE
    /\ retval' = 1
    /\ main_pc' = "done"
    /\ UNCHANGED << args, get_all_files, filenames, sftp_open, disconnects,
                    remoteFiles, s3Keys, pf_pc, i, results, ops,
                    tempdir, staged, localFiles, faults, cwd >>

\* an exception leaving process_files leaves main() too (try/finally only);
\* the interpreter then exits with status 1
Main_Propagate ==
    /\ main_pc = "in_process"
    /\ pf_pc = "raised"
    /\ uncaught' = TRUE
    /\ retval' = 1
    /\ main_pc' = "finally"
    /\ UNCHANGED << args, get_all_files, filenames, sftp_open, disconnects,
                    remoteFiles, s3Keys, pf_pc, i, results, ops,
                    tempdir, staged, localFiles, faults, cwd >>

\* finally: sftp_manager.disconnect()
Main_Finally ==
    /\ main_pc = "finally"
    /\ sftp_open' = FALSE
    /\ disconnects' = disconnects + 1
    /\ main_pc' = "done"
    /\ UNCHANGED << args, retval, uncaught, get_all_files, filenames,
                    remoteFiles, s3Keys, pf_pc, i, results, ops,
                    tempdir, staged, localFiles, faults, cwd >>


\* --------------------------------------------------------- process_files
\* results[bucket] = [filename]: the append replaced by an assignment
append_to_Overwrite(res, bucket, filename) == [res EXCEPT ![bucket] = <<filename>>]

\* results[bucket].insert(0, filename)
append_to_Prepend(res, bucket, filename) == [res EXCEPT ![bucket] = <<filename>> \o @]

\* results[bucket].append(filename)
append_to(res, bucket, filename) == [res EXCEPT ![bucket] = Append(@, filename)]

RECURSIVE append_all(_, _, _)
\* several appends in a row
append_all(res, buckets, filename) ==
    IF buckets = <<>> THEN res
    ELSE append_all(append_to(res, Head(buckets), filename), Tail(buckets), filename)

\* the appends, as history entries
Recs(buckets, idx) == [k \in DOMAIN buckets |-> Rec(buckets[k], idx)]

\* `continue`, or the end of the loop body: the for loop takes the next
\* filename, or falls out of the try block into finally
NextFile ==
    /\ i' = i + 1
    /\ pf_pc' = IF i + 1 <= Len(filenames) THEN "exists" ELSE "finally"

\* control leaves a step of the loop body: "next" is `continue`
Goto(target) ==
    IF target = "next" THEN NextFile ELSE pf_pc' = target /\ UNCHANGED i

\* the result of change_directory ignored
after_chdir_Ignored(ok) == "setup"

\* lines 292-294: return results when the directory cannot be selected
after_chdir(ok) == IF ok THEN "setup" ELSE "returned"

\* if not sftp_manager.change_directory(remote_sftp_path): return results
PF_ChangeDirectory ==
    /\ pf_pc = "chdir"
    /\ \E ok \in BOOLEAN :
         /\ Spend(CostOf(ok))
         /\ ops' = Append(ops, Call("change_directory", 0, Str(ok)))
         /\ cwd' = IF ok THEN adjust_cwd(cwd, args.remote_path) ELSE cwd
         /\ pf_pc' = after_chdir(ok)
    /\ UNCHANGED << args, main_pc, retval, uncaught, get_all_files, filenames,
                    sftp_open, disconnects, remoteFiles, s3Keys, i, results,
                    tempdir, staged, localFiles >>

\* lines 296-307: download_dir = tempfile.mkdtemp(...) if use_s3, else
\* Path(local_download_path).mkdir(...); then the try block and the for loop.
\* Either call can raise, and it does so before the try block is entered.
PF_Setup ==
    /\ pf_pc = "setup"
    /\ \E ok \in BOOLEAN :
         /\ Spend(CostOf(ok))
         /\ ops' = Append(ops, Call(IF use_s3 THEN "mkdtemp" ELSE "mkdir", 0, Str(ok)))
         /\ IF ok
            THEN /\ tempdir' = IF use_s3 THEN "exists" ELSE tempdir
                 /\ i' = 1
                 /\ pf_pc' = IF 1 <= Len(filenames) THEN "exists" ELSE "finally"
            ELSE /\ pf_pc' = "raised"
                 /\ UNCHANGED << i, tempdir >>
    /\ UNCHANGED << args, main_pc, retval, uncaught, get_all_files, filenames,
                    sftp_open, disconnects, remoteFiles, s3Keys, results,
                    staged, localFiles, cwd >>

\* the `continue` after sftp_not_found left out
after_exists_NoContinue(found, with_s3, overwrite) ==
    IF with_s3 /\ ~overwrite THEN "s3_check" ELSE "download"

\* the pre-check made whatever overwrite_s3 says
after_exists_AlwaysPreCheck(found, with_s3, overwrite) ==
    IF ~found THEN "next"
    ELSE IF with_s3 THEN "s3_check" ELSE "download"

\* lines 312-322: not found -> continue; else the S3 pre-check when use_s3
\* and not overwrite_s3 (`and` short-circuits), else the download
after_exists(found, with_s3, overwrite) ==
    IF ~found THEN "next"
    ELSE IF with_s3 /\ ~overwrite THEN "s3_check" ELSE "download"

\* if not sftp_manager.file_exists(filename): sftp_not_found, continue
PF_FileExists ==
    /\ pf_pc = "exists"
    /\ LET filename == filenames[i] IN
       \E raw \in StatOutcomes(filename) :
         LET found == sftp_file_exists(raw)
             buckets == IF ~found THEN <<"sftp_not_found">> ELSE <<>> IN
         /\ Spend(Cost(raw))
         /\ results' = append_all(results, buckets, filename)
         /\ ops' = ops \o <<Call("file_exists", i, Str(found))>> \o Recs(buckets, i)
         /\ Goto(after_exists(found, use_s3, overwrite_s3))
    /\ UNCHANGED << args, main_pc, retval, uncaught, get_all_files, filenames,
                    sftp_open, disconnects, remoteFiles, s3Keys,
                    tempdir, staged, localFiles, cwd >>

\* the `continue` after s3_already_exists left out
after_s3_check_NoContinue(ret) ==
    CASE ret = "True"  -> "download"
      [] ret = "False" -> "download"
      [] OTHER         -> "finally_raise"

\* lines 322-325: exists -> continue; an exception leaves the for loop and
\* only the finally clause runs
after_s3_check(ret) ==
    CASE ret = "True"  -> "next"
      [] ret = "False" -> "download"
      [] OTHER         -> "finally_raise"

\* if not overwrite_s3 and s3_manager.file_exists(s3_key): s3_already_exists, continue
PF_S3FileExists ==
    /\ pf_pc = "s3_check"
    /\ LET filename == filenames[i]
           key == s3_key(args.s3_prefix, filename) IN
       \E raw \in HeadOutcomes(key) :
         LET ret == s3_file_exists(raw)
             buckets == IF ret = "True" THEN <<"s3_already_exists">> ELSE <<>> IN
         /\ Spend(Cost(raw))
         /\ results' = append_all(results, buckets, filename)
         /\ ops' = ops \o <<Call("s3_file_exists", i, ret)>> \o Recs(buckets, i)
         /\ Goto(after_s3_check(ret))
    /\ UNCHANGED << args, main_pc, retval, uncaught, get_all_files, filenames,
                    sftp_open, disconnects, remoteFiles, s3Keys,
                    tempdir, staged, localFiles, cwd >>

\* the `continue` after sftp_download_failed left out
after_download_NoContinue(file_path, with_s3) ==
    IF with_s3 THEN "upload" ELSE "delete"

\* the upload step skipped
after_download_SkipUpload(file_path, with_s3) ==
    IF ~file_path THEN "next" ELSE "delete"

\* lines 333-338: no file_path -> continue; else upload when use_s3, else
\* straight to the deletion step
after_download(file_path, with_s3) ==
    IF ~file_path THEN "next"
    ELSE IF with_s3 THEN "upload" ELSE "delete"

\* file_path = download_file_to_temp/_to_local(...); if not file_path:
\* sftp_download_failed, continue
PF_Download ==
    /\ pf_pc = "download"
    /\ LET filename == filenames[i]
           op == IF use_s3 THEN "download_file_to_temp" ELSE "download_file_to_local" IN
       \E raw \in GetOutcomes(filename) :
         LET file_path == download_file(raw)
             buckets == IF ~file_path THEN <<"sftp_download_failed">> ELSE <<>> IN
         /\ Spend(Cost(raw))
         /\ results' = append_all(results, buckets, filename)
         /\ ops' = ops \o <<Call(op, i, Str(file_path))>> \o Recs(buckets, i)
         /\ Goto(after_download(file_path, use_s3))
         /\ IF use_s3
            THEN staged' = after_get(staged, filename, raw) /\ UNCHANGED localFiles
            ELSE localFiles' = after_get(localFiles, filename, raw) /\ UNCHANGED staged
    /\ UNCHANGED << args, main_pc, retval, uncaught, get_all_files, filenames,
                    sftp_open, disconnects, remoteFiles, s3Keys, tempdir, cwd >>

\* `if not upload_success: continue` left out
after_upload_NoContinue(upload_success) == "delete"

\* lines 358-359: if not upload_success: continue
after_upload(upload_success) == IF upload_success THEN "delete" ELSE "next"

\* the temp file removed only after a successful upload
removes_temp_file_OnSuccessOnly(upload_success) == upload_success

\* lines 341-351: os.remove(file_path) follows the if/else on upload_file's
\* result, so it is called whatever that result was
removes_temp_file(upload_success) == TRUE

\* if s3_manager.upload_file(file_path, s3_key): ... else s3_upload_failed;
\* try: os.remove(file_path) except: pass
PF_Upload ==
    /\ pf_pc = "upload"
    /\ LET filename == filenames[i]
           key == s3_key(args.s3_prefix, filename) IN
       \E raw \in UploadOutcomes, removed \in BOOLEAN :
         LET upload_success == upload_file(raw)
             buckets == IF ~upload_success THEN <<"s3_upload_failed">> ELSE <<>>
             cleanup == IF removes_temp_file(upload_success)
                        THEN <<Call("os.remove", i, Str(removed))>> ELSE <<>> IN
         /\ removes_temp_file(upload_success) \/ removed
         /\ Spend(Cost(raw) + CostOf(removed))
         /\ s3Keys' = IF upload_success THEN s3Keys \cup {key} ELSE s3Keys
         /\ results' = append_all(results, buckets, filename)
         /\ staged' = IF removes_temp_file(upload_success) /\ removed
                       THEN Without(staged, filename) ELSE staged
         /\ ops' = ops \o <<Call("upload_file", i, Str(upload_success))>>
                       \o Recs(buckets, i) \o cleanup
         /\ Goto(after_upload(upload_success))
    /\ UNCHANGED << args, main_pc, retval, uncaught, get_all_files, filenames,
                    sftp_open, disconnects, remoteFiles, tempdir, localFiles, cwd >>

\* a failed deletion ends the iteration before the success append
delete_buckets_FailureOnly(sftp_delete_success) ==
    IF sftp_delete_success THEN <<"success">>
    ELSE <<"sftp_delete_failed">>

\* lines 362-369: the buckets the deletion step appends to, in order
delete_buckets(sftp_delete_success) ==
    IF sftp_delete_success THEN <<"success">>
    ELSE <<"sftp_delete_failed", "success">>

\* if delete_from_sftp: delete_file, sftp_delete_failed on failure;
\* then results['success'].append(filename)
PF_Delete ==
    /\ pf_pc = "delete"
    /\ LET filename == filenames[i] IN
       IF delete_from_sftp
       THEN \E raw \in RemoveOutcomes(filename) :
              LET sftp_delete_success == delete_file(raw)
                  buckets == delete_buckets(sftp_delete_success) IN
              /\ Spend(Cost(raw))
              /\ remoteFiles' = IF sftp_delete_success /\ cwd = RemoteDir
                                THEN remoteFiles \ {filename} ELSE remoteFiles
              /\ results' = append_all(results, buckets, filename)
              /\ ops' = ops \o <<Call("delete_file", i, Str(sftp_delete_success))>>
                            \o Recs(buckets, i)
       ELSE /\ UNCHANGED << remoteFiles, faults >>
            /\ results' = append_all(results, delete_buckets(TRUE), filename)
            /\ ops' = ops \o Recs(delete_buckets(TRUE), i)
    /\ NextFile
    /\ UNCHANGED << args, main_pc, retval, uncaught, get_all_files, filenames,
                    sftp_open, disconnects, s3Keys,
                    tempdir, staged, localFiles, cwd >>

\* the temp directory removed after the loop only, not in a finally clause
finally_rmtree_NotOnException(with_s3, pending) == with_s3 /\ ~pending

\* lines 371-378: finally: if use_s3: shutil.rmtree(download_dir), whether
\* or not an exception is pending
finally_rmtree(with_s3, pending) == with_s3

\* finally: try: shutil.rmtree(download_dir) except: pass; then return
\* results, or let the pending exception continue
PF_Finally ==
    /\ pf_pc \in {"finally", "finally_raise"}
    /\ LET pending == pf_pc = "finally_raise" IN
       /\ pf_pc' = IF pending THEN "raised" ELSE "returned"
       /\ IF finally_rmtree(use_s3, pending)
          THEN \E removed \in BOOLEAN :
                 /\ Spend(CostOf(removed))
                 /\ ops' = Append(ops, Call("rmtree", 0, Str(removed)))
                 /\ tempdir' = IF removed THEN "removed" ELSE tempdir
                 /\ staged' = IF removed THEN {} ELSE staged
          ELSE UNCHANGED << ops, tempdir, staged, faults >>
    /\ UNCHANGED << args, main_pc, retval, uncaught, get_all_files, filenames,
                    sftp_open, disconnects, remoteFiles, s3Keys, i, results,
                    localFiles, cwd >>

\* ------------------------------------------------------------------ Spec
Next ==
    \/ Main_ReadCsv
    \/ Main_S3Init
    \/ Main_Connect
    \/ Main_ChangeDirectory
    \/ Main_ListFiles
    \/ Main_ProcessFiles
    \/ Main_Report
    \/ Main_Propagate
    \/ Main_Finally
    \/ PF_ChangeDirectory
    \/ PF_Setup
    \/ PF_FileExists
    \/ PF_S3FileExists
    \/ PF_Download
    \/ PF_Upload
    \/ PF_Delete
    \/ PF_Finally

Spec == Init /\ [][Next]_vars


\* ------------------------------------------------- reading the history
Count(seq, x) == Cardinality({ k \in DOMAIN seq : seq[k] = x })

\* some call of one of `opset` was made for input occurrence idx
Called(opset, idx) ==
    \E k \in DOMAIN ops : ops[k].op \in opset /\ ops[k].idx = idx

\* ... and returned ret
Returned(opset, idx, ret) ==
    \E k \in DOMAIN ops : ops[k].op \in opset /\ ops[k].idx = idx /\ ops[k].ret = ret

\* the occurrences for which a call of `opset` returned ret, in call order
IdxSeq(opset, ret) ==
    LET sel == SelectSeq(ops, LAMBDA e : e.op \in opset /\ e.ret = ret)
    IN  [k \in DOMAIN sel |-> sel[k].idx]

\* the filenames at these input positions
NamesAt(idxs) == [k \in DOMAIN idxs |-> filenames[idxs[k]]]

\* the occurrences appended to a bucket, in append order
BucketIdx(bucket) == IdxSeq({"append"}, bucket)

\* the buckets occurrence idx was appended to
BucketsOf(idx) == { b \in Buckets : Returned({"append"}, idx, b) }

DownloadOps == {"download_file_to_temp", "download_file_to_local"}

\* process_files' change_directory failed (main's own failure never reaches process_files)
BindFailed == Returned({"change_directory"}, 0, "False")

\* main got its results back and computed the exit status from them
Reported == main_pc \in {"finally", "done"} /\ pf_pc = "returned"

RECURSIVE TotalCount(_, _)
\* occurrences of name n over a set of buckets
TotalCount(bs, n) ==
    IF bs = {} THEN 0
    ELSE LET b == CHOOSE x \in bs : TRUE
         IN  Count(results[b], n) + TotalCount(bs \ {b}, n)

PrimaryBuckets == Buckets \ {"sftp_delete_failed"}

\* ---------------------------------------------------------------- claims

\* C1 (as stated): when process_files returns, the six buckets partition the
\* input: each input occurrence of a name is in exactly one bucket, nothing
\* else is in any bucket; all buckets are empty if the directory selection failed.
C1_SixBucketsPartition ==
    pf_pc = "returned" =>
        IF BindFailed THEN results = EmptyResults
        ELSE \A n \in Names : TotalCount(Buckets, n) = Count(filenames, n)

\* C1 (amended): when process_files returns, the five buckets other than
\* sftp_delete_failed hold every input occurrence exactly once and nothing
\* else; sftp_delete_failed only repeats names recorded in success; all
\* buckets are empty if the directory selection failed.
C1_PrimaryBucketsPartition ==
    pf_pc = "returned" =>
        IF BindFailed THEN results = EmptyResults
        ELSE \A n \in Names :
               /\ TotalCount(PrimaryBuckets, n) = Count(filenames, n)
               /\ Count(results["sftp_delete_failed"], n) <= Count(results["success"], n)

C1_Witness ==
    /\ pf_pc = "returned"
    /\ ~BindFailed
    /\ Len(filenames) >= 2
    /\ results["sftp_delete_failed"] # <<>>
    /\ results["sftp_not_found"] # <<>>

\* C2: once main has its results, the exit status is 1 exactly when
\* sftp_download_failed or s3_upload_failed is non-empty.
C2_ExitStatus ==
    Reported =>
        /\ retval \in {0, 1}
        /\ retval = 1 <=> ( \/ results["sftp_download_failed"] # <<>>
                            \/ results["s3_upload_failed"] # <<>> )

C2_Witness ==
    /\ main_pc = "done"
    /\ pf_pc = "returned"
    /\ retval = 1
    /\ results["s3_upload_failed"] # <<>>
    /\ results["sftp_download_failed"] = <<>>
    /\ results["s3_already_exists"] # <<>>

\* a fatal-to-run condition: a directory selection, the connection or the
\* S3 client construction failed
FatalOccurred == Returned({"change_directory", "connect", "S3Manager"}, 0, "False")

\* C3 (as stated): a run in which a fatal-to-run condition occurred ends
\* with exit status 1.
C3_FatalExitsOne ==
    (main_pc = "done" /\ FatalOccurred) => retval = 1

\* C4: an occurrence whose source existence check returned False is recorded
\* in sftp_not_found and in no other bucket, and no S3 check, download,
\* upload or deletion is called for it.
C4_NotFoundStops ==
    LET nf == IdxSeq({"file_exists"}, "False") IN
    /\ results["sftp_not_found"] = NamesAt(nf)
    /\ \A k \in DOMAIN nf :
         /\ ~Called({"s3_file_exists", "upload_file", "delete_file"} \cup DownloadOps, nf[k])
         /\ BucketsOf(nf[k]) = {"sftp_not_found"}

C4_Witness ==
    /\ pf_pc = "returned"
    /\ use_s3 /\ delete_from_sftp /\ ~overwrite_s3
    /\ results["sftp_not_found"] # <<>>
    /\ results["success"] # <<>>

\* C5 (as stated): when the S3 pre-check runs (S3 configured, overwrite
\* disabled) and the key is in the bucket, the step appends the filename to
\* s3_already_exists and goes on to the next filename, not to the download.
C5_ExistingKeySkipped ==
    [][ (pf_pc = "s3_check" /\ s3_key(args.s3_prefix, filenames[i]) \in s3Keys)
          => /\ results'["s3_already_exists"]
                   = Append(results["s3_already_exists"], filenames[i])
             /\ pf_pc' \in {"exists", "finally"} ]_vars

\* C6: an occurrence whose download returned None is recorded in
\* sftp_download_failed and in no other bucket, and neither upload nor
\* deletion is called for it.
C6_FetchFailureStops ==
    LET df == IdxSeq(DownloadOps, "False") IN
    /\ results["sftp_download_failed"] = NamesAt(df)
    /\ \A k \in DOMAIN df :
         /\ ~Called({"upload_file", "delete_file"}, df[k])
         /\ BucketsOf(df[k]) = {"sftp_download_failed"}

C6_Witness ==
    /\ pf_pc = "returned"
    /\ use_s3 /\ delete_from_sftp
    /\ results["sftp_download_failed"] # <<>>
    /\ results["success"] # <<>>

\* C7: an occurrence whose upload failed is recorded in s3_upload_failed
\* exactly once, not in success, and no deletion is called for it.
C7_UploadFailureStops ==
    LET uf == IdxSeq({"upload_file"}, "False") IN
    /\ results["s3_upload_failed"] = NamesAt(uf)
    /\ results["success"] = NamesAt(BucketIdx("success"))
    /\ \A k \in DOMAIN uf :
         /\ Count(uf, uf[k]) = 1
         /\ Count(BucketIdx("s3_upload_failed"), uf[k]) = 1
         /\ ~Called({"delete_file"}, uf[k])
         /\ "success" \notin BucketsOf(uf[k])

C7_Witness ==
    /\ pf_pc = "returned"
    /\ delete_from_sftp
    /\ results["s3_upload_failed"] # <<>>
    /\ Len(results["success"]) + Len(results["s3_upload_failed"]) >= 2

\* C8: an occurrence whose source deletion failed had its transfer succeed,
\* is recorded in success and also in sftp_delete_failed; the exit status
\* is 0 when nothing but deletions failed.
C8_DeleteFailureKeepsSuccess ==
    LET dl == IdxSeq({"delete_file"}, "False") IN
    /\ results["sftp_delete_failed"] = NamesAt(dl)
    /\ results["success"] = NamesAt(BucketIdx("success"))
    /\ \A k \in DOMAIN dl :
         /\ delete_from_sftp
         /\ IF use_s3 THEN Returned({"upload_file"}, dl[k], "True")
                      ELSE Returned({"download_file_to_local"}, dl[k], "True")
         /\ BucketsOf(dl[k]) = {"success", "sftp_delete_failed"}
    /\ ( /\ Reported
         /\ results["sftp_download_failed"] = <<>>
         /\ results["s3_upload_failed"] = <<>> ) => retval = 0

C8_Witness ==
    /\ main_pc = "done"
    /\ pf_pc = "returned"
    /\ retval = 0
    /\ results["sftp_delete_failed"] # <<>>
    /\ results["success"] = results["sftp_delete_failed"]

\* the history of the per-filename loop
LoopOps == SelectSeq(ops, LAMBDA e : e.idx >= 1)

\* C9: the loop works on occurrence 1, 2, ... in turn, moving on only after
\* the previous occurrence got its outcome, and every bucket lists its
\* filenames in input order.
C9_InputOrder ==
    LET loop == LoopOps IN
    /\ loop # <<>> => loop[1].idx = 1
    /\ \A k \in 1..(Len(loop) - 1) :
         \/ loop[k + 1].idx = loop[k].idx
         \/ /\ loop[k + 1].idx = loop[k].idx + 1
            /\ \E j \in 1..k : /\ loop[j].idx = loop[k].idx
                               /\ loop[j].op = "append"
    /\ \A b \in Buckets :
         LET at == BucketIdx(b) IN
         /\ results[b] = NamesAt(at)
         /\ \A k \in 1..(Len(at) - 1) : at[k] < at[k + 1]

C9_Witness ==
    /\ pf_pc = "returned"
    /\ \E b \in Buckets :
         /\ Len(results[b]) >= 2
         /\ results[b][1] # results[b][2]

\* C10 (as stated): no exception leaves the per-filename loop, and a run
\* that passed the directory selection goes through the whole input.
C10_NoFaultEscapes ==
    /\ pf_pc \notin {"finally_raise", "raised"}
    /\ ~uncaught
    /\ (pf_pc = "returned" /\ ~BindFailed) => i = Len(filenames) + 1


\* ------------------------------------------------ claims C11 .. C20

\* process_files has ended, by return or by an exception
PFEnded == pf_pc \in {"returned", "raised"}

\* calls of op (idx 0 calls: setup and cleanup of the run), whatever they returned
NumCalls(op) == Cardinality({ k \in DOMAIN ops : ops[k].op = op })

\* C11 (as stated): the temp directory is created at most once and only
\* with S3 configured, and once process_files has ended, a directory that
\* was created is gone.
C11_WorkingAreaRemoved ==
    /\ NumCalls("mkdtemp") <= 1
    /\ tempdir # "none" => use_s3
    /\ PFEnded => tempdir # "exists"

\* C11 (amended): the temp directory is created at most once and only with
\* S3 configured; once process_files has ended, by return or by exception,
\* a directory that was created has had exactly one rmtree call, made after
\* everything else, and is gone if that call succeeded; rmtree is called
\* at no other time.
C11_WorkingAreaRemovalAttempted ==
    /\ NumCalls("mkdtemp") <= 1
    /\ Called({"mkdtemp"}, 0) => use_s3
    /\ tempdir # "none" <=> Returned({"mkdtemp"}, 0, "True")
    /\ tempdir = "removed" <=> Returned({"rmtree"}, 0, "True")
    /\ IF PFEnded /\ tempdir # "none"
       THEN NumCalls("rmtree") = 1 /\ ops[Len(ops)].op = "rmtree"
       ELSE NumCalls("rmtree") = 0

C11_Witness ==
    /\ pf_pc = "raised"
    /\ tempdir = "removed"
    /\ i >= 2
    /\ results["success"] # <<>>

\* C12: when main is over and connect() was called, disconnect() was
\* called, exactly once, whichever way main ended.
C12_DisconnectAlways ==
    /\ disconnects <= 1
    /\ (main_pc = "done" /\ Called({"connect"}, 0)) =>
           disconnects = 1 /\ ~sftp_open

C12_Witness ==
    /\ main_pc = "done"
    /\ uncaught
    /\ disconnects = 1
    /\ i >= 2

\* process_files' own change_directory failed
PFBindFailed == pf_pc # "idle" /\ BindFailed

\* C13: nothing is done for any filename and no directory is created before
\* process_files' change_directory has succeeded; if it failed,
\* process_files returns with every bucket empty, nothing created, no
\* per-file call made.
C13_BindFirst ==
    /\ ( \/ LoopOps # <<>>
         \/ Called({"mkdtemp", "mkdir", "rmtree"}, 0)
         \/ tempdir # "none" \/ staged # {} \/ localFiles # {} )
         => (pf_pc \notin {"idle", "chdir"} /\ ~BindFailed)
    /\ PFBindFailed =>
         /\ pf_pc = "returned"
         /\ results = EmptyResults
         /\ LoopOps = <<>>
         /\ ~Called({"mkdtemp", "mkdir", "rmtree"}, 0)
         /\ tempdir = "none" /\ staged = {} /\ localFiles = {}

C13_Witness ==
    /\ main_pc = "done"
    /\ PFBindFailed
    /\ use_s3
    /\ Len(filenames) >= 2

EarlyBuckets == { "sftp_not_found", "s3_already_exists",
                  "sftp_download_failed", "s3_upload_failed" }

\* C14: an occurrence recorded in sftp_not_found, s3_already_exists,
\* sftp_download_failed or s3_upload_failed is appended once, to that bucket
\* only, and nothing but the removal of its temp file is done for it afterwards.
C14_EarlyOutcomeIsFinal ==
    /\ \A b \in Buckets : results[b] = NamesAt(BucketIdx(b))
    /\ \A k \in DOMAIN ops :
         (ops[k].op = "append" /\ ops[k].ret \in EarlyBuckets) =>
             /\ BucketsOf(ops[k].idx) = {ops[k].ret}
             /\ \A j \in DOMAIN ops :
                  (j # k /\ ops[j].idx = ops[k].idx) =>
                      /\ ops[j].op # "append"
                      /\ j > k => ops[j].op = "os.remove"

C14_Witness ==
    /\ pf_pc = "returned"
    /\ delete_from_sftp
    /\ results["s3_already_exists"] # <<>>
    /\ results["success"] # <<>>

\* no file called name in a directory
Absent(files, name) == \A f \in files : f[1] # name

\* C15 (as stated): the upload step, whether the upload succeeded or failed,
\* leaves no temp file of the filename behind.
C15_StagedArtifactRemoved ==
    [][ pf_pc = "upload" => Absent(staged', filenames[i]) ]_vars

\* C15 (amended): the upload step, whether the upload succeeded or failed,
\* ends with one os.remove call for the temp file, and the file is gone
\* if that call succeeded.
C15_StagedRemovalAttempted ==
    [][ pf_pc = "upload" =>
          LET last == ops'[Len(ops')] IN
          /\ last.op = "os.remove" /\ last.idx = i
          /\ Cardinality({ k \in DOMAIN ops' :
                 ops'[k].op = "os.remove" /\ ops'[k].idx = i }) = 1
          /\ last.ret = "True" => Absent(staged', filenames[i]) ]_vars

C15_Witness ==
    /\ pf_pc = "returned"
    /\ \E idx \in 1..Len(filenames) :
         /\ Returned({"upload_file"}, idx, "False")
         /\ Returned({"os.remove"}, idx, "True")
    /\ \E idx \in 1..Len(filenames) :
         /\ Returned({"upload_file"}, idx, "True")
         /\ Returned({"os.remove"}, idx, "True")

\* the download step that is being taken fails
DownloadFails ==
    /\ pf_pc = "download"
    /\ results'["sftp_download_failed"] # results["sftp_download_failed"]

\* C16 (as stated): when the download fails, a cleanup is attempted, or
\* there is no partial file of that filename in the download directory,
\* before the next filename is taken.
C16_FetchFailureCleansUp ==
    [][ DownloadFails =>
          \/ \E k \in DOMAIN ops' : ops'[k].op = "os.remove" /\ ops'[k].idx = i
          \/ <<filenames[i], "partial">> \notin (staged' \cup localFiles') ]_vars

\* C16 (amended): when the download fails, the step records the filename in
\* sftp_download_failed only and goes to the next filename; it makes no
\* cleanup call and removes nothing from the download directory.
C16_FetchFailureNoCleanup ==
    [][ DownloadFails =>
          /\ ops' = ops \o << Call(IF use_s3 THEN "download_file_to_temp"
                                            ELSE "download_file_to_local", i, "False"),
                              Rec("sftp_download_failed", i) >>
          /\ results' = [results EXCEPT !["sftp_download_failed"] =
                                            Append(@, filenames[i])]
          /\ pf_pc' \in {"exists", "finally"} /\ i' = i + 1
          /\ \A f \in staged : f \in staged' \/ f[1] = filenames[i]
          /\ \A f \in localFiles : f \in localFiles' \/ f[1] = filenames[i]
          /\ tempdir' = tempdir ]_vars

C16_Witness ==
    /\ main_pc = "done"
    /\ pf_pc = "returned"
    /\ \E idx \in 1..Len(filenames) :
         /\ Returned(DownloadOps, idx, "False")
         /\ BucketsOf(idx) = {"sftp_download_failed"}
         /\ <<filenames[idx], "partial">> \in localFiles

\* the transfer of occurrence idx is complete: uploaded, or downloaded to
\* the local directory when no S3 is configured
TransferDone(idx) ==
    IF use_s3 THEN Returned({"upload_file"}, idx, "True")
              ELSE Returned({"download_file_to_local"}, idx, "True")

\* with --no-delete: no delete_file call, no deletion failure, every
\* finished occurrence whose transfer is complete is in success
NoDeleteState ==
    /\ \A k \in DOMAIN ops : ops[k].op # "delete_file"
    /\ results["sftp_delete_failed"] = <<>>
    /\ results["success"] = NamesAt(BucketIdx("success"))
    /\ \A idx \in 1..Len(filenames) :
         (idx < i /\ TransferDone(idx)) => BucketsOf(idx) = {"success"}

\* C17: with deletion disabled no step changes the set of files at the
\* source, delete_file is never called, sftp_delete_failed stays empty and
\* every occurrence whose transfer completed is recorded as success.
C17_NoDeleteWhenDisabled ==
    [][ args.no_delete => (remoteFiles' = remoteFiles /\ NoDeleteState') ]_vars

C17_Witness ==
    /\ pf_pc = "returned"
    /\ args.no_delete
    /\ Len(results["success"]) >= 2
    /\ \A idx \in 1..Len(filenames) : filenames[idx] \in remoteFiles

\* C18: with S3 configured and overwrite enabled there is no destination
\* pre-check and nothing is recorded in s3_already_exists; a filename found
\* at the source is downloaded, then uploaded if the download succeeded, and
\* a successful upload puts it in the bucket under s3_key(prefix, filename).
C18_OverwriteSkipsPreCheck ==
    (use_s3 /\ overwrite_s3) =>
        /\ results["s3_already_exists"] = <<>>
        /\ \A k \in DOMAIN ops : ops[k].op # "s3_file_exists"
        /\ \A idx \in 1..Len(filenames) :
             /\ (idx < i /\ Returned({"file_exists"}, idx, "True"))
                    => Called({"download_file_to_temp"}, idx)
             /\ (idx < i /\ Returned({"download_file_to_temp"}, idx, "True"))
                    => Called({"upload_file"}, idx)
             /\ Returned({"upload_file"}, idx, "True")
                    => s3_key(args.s3_prefix, filenames[idx]) \in s3Keys

C18_Witness ==
    /\ pf_pc = "delete"
    /\ use_s3 /\ overwrite_s3
    /\ args.s3_prefix # <<>>
    /\ Returned({"upload_file"}, i, "True")
    /\ \E idx \in 1..(i - 1) :
         filenames[idx] = filenames[i] /\ Returned({"upload_file"}, idx, "True")

Delivered(filename) ==
    IF use_s3 THEN s3_key(args.s3_prefix, filename) \in s3Keys
              ELSE <<filename, "whole">> \in localFiles

\* C20: delete_file is called for an occurrence only after its upload (its
\* local download without S3) succeeded and while the deliverable exists;
\* the occurrence is then recorded in success and in none of
\* sftp_not_found, s3_already_exists, sftp_download_failed, s3_upload_failed.
C20_DeleteOnlyAfterDelivery ==
    /\ pf_pc = "delete" => Delivered(filenames[i])
    /\ \A k \in DOMAIN ops :
         ops[k].op = "delete_file" =>
             /\ delete_from_sftp
             /\ \E j \in 1..(k - 1) :
                  /\ ops[j].idx = ops[k].idx
                  /\ ops[j].ret = "True"
                  /\ ops[j].op = IF use_s3 THEN "upload_file"
                                           ELSE "download_file_to_local"
             /\ "success" \in BucketsOf(ops[k].idx)
             /\ BucketsOf(ops[k].idx) \cap EarlyBuckets = {}
             /\ ops[k].ret = "True" => Delivered(filenames[ops[k].idx])

C20_Witness ==
    /\ pf_pc = "returned"
    /\ use_s3
    /\ \E idx \in 1..Len(filenames) : Returned({"delete_file"}, idx, "True")
    /\ results["s3_upload_failed"] # <<>>


\* ------------------------------------------------------------ claim C21

\* the steps process_files takes once its change_directory has succeeded
PipelinePcs == {"setup", "exists", "s3_check", "download", "upload", "delete"}

\* C21 (as stated): when the filenames come from listing the remote
\* directory, the per-file pipeline runs in the directory that was listed,
\* and a listed file that is still there is not reported as not found when
\* no call has failed.
C21_SameDirectoryAsListed ==
    get_all_files =>
        /\ pf_pc \in PipelinePcs => cwd = RemoteDir
        /\ faults = 0 =>
              \A idx \in 1..Len(filenames) :
                  Returned({"file_exists"}, idx, "False")
                      => filenames[idx] \notin remoteFiles

====
